---- MODULE Spec2Model ----
(***************************************************************************)
(* fastfuels-sdk: the treelist client operations (fastfuels_sdk/           *)
(* treelists.py), the status polling loop of tests/test_fuelgrid.py, and   *)
(* the remote service they talk to.  A client call is synchronous: it      *)
(* validates its arguments, sends at most one request, the service handles *)
(* it, and the call returns or raises.  One action models one whole call.  *)
(***************************************************************************)
EXTENDS Integers, Sequences, FiniteSets, TLC

VARIABLES
    datasets,    \* service: dataset id -> [treelists, fuelgrids] (child-id collections)
    treelists,   \* service: treelist id -> stored treelist
    fuelgrids,   \* service: fuelgrid id -> stored fuelgrid
    nDatasets,   \* service: number of dataset ids assigned so far
    nTreelists,  \* service: number of treelist ids assigned so far
    nFuelgrids,  \* service: number of fuelgrid ids assigned so far
    last,        \* client: the last call (operation, arguments, requests sent, outcome)
    created,     \* client: id -> the record its create call returned
    pollPc,      \* polling loop: "idle", "loop", "done" or "raised"
    pollId,      \* polling loop: the fuelgrid id polled
    pollRec,     \* polling loop: the record held (the variable `fuelgrid`)
    pollReads    \* polling loop: the statuses read by its get calls, in order

server == <<datasets, treelists, fuelgrids, nDatasets, nTreelists, nFuelgrids>>
poll == <<pollPc, pollId, pollRec, pollReads>>
vars == <<datasets, treelists, fuelgrids, nDatasets, nTreelists, nFuelgrids,
          last, created, pollPc, pollId, pollRec, pollReads>>

----------------------------------------------------------------------------
(* Bounds of the model *)

MaxDatasets == 2
MaxTreelists == 2
MaxFuelgrids == 1
MaxPolls == 4

----------------------------------------------------------------------------
(* Values *)

\* Python's None
None == "None"

\* Python truthiness of an optional string: None and "" are both falsy
Truthy(x) == x \notin {None, ""}

\* ids are assigned by the service; BadId is uuid4().hex of the tests, never assigned
DsId(n) == "d" \o ToString(n)
TlId(n) == "t" \o ToString(n)
FgId(n) == "f" \o ToString(n)
BadId == "bad"

DatasetIds == {DsId(n) : n \in 1..MaxDatasets}
TreelistIds == {TlId(n) : n \in 1..MaxTreelists}
FuelgridIds == {FgId(n) : n \in 1..MaxFuelgrids}

\* the status codes a response may carry
StatusCodes == {200, 201, 404}

NonTerminal == {"Pending", "Processing"}
Terminal == {"Finished", "Error"}

\* ISO-8601 text as the service sends it: <<year, month, day, separator, hour, minute>>
IsoText(n) == <<2023, 6, 1, "T", 12, n>>

\* datetime.fromisoformat: the separator is dropped, seconds default to 0
fromisoformat(s) ==
    [year |-> s[1], month |-> s[2], day |-> s[3],
     hour |-> s[5], minute |-> s[6], second |-> 0]

\* Python's None where a DataFrame is expected
NoFrame == [none |-> TRUE]

\* the tabular data a caller may pass, its CSV text, and the parsed table
Frames == {[columns |-> <<"SPCD", "DIA_cm">>, rows |-> <<<<122, 30>>>>]}
to_csv(df) == <<df.columns>> \o df.rows
read_csv(csv) == [columns |-> Head(csv), rows |-> Tail(csv)]
GeneratedCsv == <<<<"SPCD", "DIA_cm">>, <<202, 45>>>>

----------------------------------------------------------------------------
(* The remote service: resource store and request handling *)

\* the service state as one value
Cur ==
    [ds |-> datasets, ts |-> treelists, fs |-> fuelgrids,
     nd |-> nDatasets, nt |-> nTreelists, nf |-> nFuelgrids]

Remove(seq, id) == SelectSeq(seq, LAMBDA x : x # id)
RemoveAll(seq, ids) == SelectSeq(seq, LAMBDA x : x \notin ids)
Restrict(f, keep) == [k \in keep |-> f[k]]
Range(seq) == {seq[i] : i \in 1..Len(seq)}

\* a request as the transport sends it
Request(method, res, id, sub, dataset_id, units, body) ==
    [method |-> method, res |-> res, id |-> id, sub |-> sub,
     dataset_id |-> dataset_id, units |-> units, body |-> body]
NoBody == [kind |-> "none"]
JsonBody(j) == [kind |-> "json", json |-> j]
FileBody(csv) == [kind |-> "file", csv |-> csv]

\* the documented success code: 201 for creation, 200 otherwise
SuccessCode(req) == IF req.method = "POST" THEN 201 ELSE 200

ErrorBody(st) == [detail |-> "request failed", code |-> st]

\* JSON of one treelist; the summary is reported in the requested unit system
TreelistJson(s, id, units) ==
    LET t == s.ts[id] IN
    [id |-> id, name |-> t.name, description |-> t.description,
     method |-> t.method, dataset_id |-> t.dataset_id, status |-> t.status,
     created_on |-> t.created_on, summary |-> [units |-> units],
     fuelgrids |-> t.fuelgrids, version |-> t.version]

FuelgridJson(s, id) ==
    LET f == s.fs[id] IN
    [id |-> id, name |-> f.name, description |-> f.description,
     dataset_id |-> f.dataset_id, treelist_id |-> f.treelist_id,
     status |-> f.status, created_on |-> f.created_on, version |-> f.version]

DatasetJson(s, id) ==
    [id |-> id, treelists |-> s.ds[id].treelists, fuelgrids |-> s.ds[id].fuelgrids]

\* the resources that exist, in creation order, optionally of one dataset
TreelistsOf(s, dataset_id) ==
    SelectSeq([n \in 1..s.nt |-> TlId(n)],
              LAMBDA id : /\ id \in DOMAIN s.ts
                          /\ dataset_id # None => s.ts[id].dataset_id = dataset_id)
FuelgridsOf(s, dataset_id) ==
    SelectSeq([n \in 1..s.nf |-> FgId(n)],
              LAMBDA id : /\ id \in DOMAIN s.fs
                          /\ dataset_id # None => s.fs[id].dataset_id = dataset_id)
DatasetsOf(s) ==
    SelectSeq([n \in 1..s.nd |-> DsId(n)], LAMBDA id : id \in DOMAIN s.ds)

TreelistListing(s, dataset_id) ==
    LET ids == TreelistsOf(s, dataset_id) IN
    [treelists |-> [i \in 1..Len(ids) |-> TreelistJson(s, ids[i], "metric")]]
FuelgridListing(s, dataset_id) ==
    LET ids == FuelgridsOf(s, dataset_id) IN
    [fuelgrids |-> [i \in 1..Len(ids) |-> FuelgridJson(s, ids[i])]]
DatasetListing(s) ==
    LET ids == DatasetsOf(s) IN
    [datasets |-> [i \in 1..Len(ids) |-> DatasetJson(s, ids[i])]]

\* the store without the fuelgrids `gone`: they leave both parents' collections
DropFuelgrids(s, gone) ==
    [s EXCEPT
       !.fs = Restrict(s.fs, DOMAIN s.fs \ gone),
       !.ts = [t \in DOMAIN s.ts |->
                 [s.ts[t] EXCEPT !.fuelgrids = RemoveAll(@, gone)]],
       !.ds = [d \in DOMAIN s.ds |->
                 [s.ds[d] EXCEPT !.fuelgrids = RemoveAll(@, gone)]]]

\* the store without the treelists `gone` and the fuelgrids derived from them
DropTreelists(s, gone) ==
    LET derived == {f \in DOMAIN s.fs : s.fs[f].treelist_id \in gone}
        s1 == DropFuelgrids(s, derived)
    IN  [s1 EXCEPT
           !.ts = Restrict(s1.ts, DOMAIN s1.ts \ gone),
           !.ds = [d \in DOMAIN s1.ds |->
                     [s1.ds[d] EXCEPT !.treelists = RemoveAll(@, gone)]]]

\* the store without dataset `id` and everything it owns
DropDataset(s, id) ==
    LET s1 == DropTreelists(s, {t \in DOMAIN s.ts : s.ts[t].dataset_id = id})
        s2 == DropFuelgrids(s1, {f \in DOMAIN s1.fs : s1.fs[f].dataset_id = id})
    IN  [s2 EXCEPT !.ds = Restrict(s2.ds, DOMAIN s2.ds \ {id})]

Store(s, res) == IF res = "datasets" THEN s.ds ELSE IF res = "treelists" THEN s.ts ELSE s.fs

\* a fuelgrid accepted from a treelist in any status
TreelistUsableAlways(status) == TRUE

\* a fuelgrid can only be created from a treelist whose processing has finished
TreelistUsable(status) == status = "Finished"

\* the archive served for a fuelgrid in any status
DataReadyAlways(status) == TRUE

\* a fuelgrid's archive is served only once the fuelgrid is Finished
DataReady(status) == status = "Finished"

\* what the service requires before it answers a request with its success code
Valid(s, req) ==
    CASE req.method = "POST" /\ req.res = "datasets" -> s.nd < MaxDatasets
      [] req.method = "POST" /\ req.res = "treelists" ->
            /\ req.body.json.dataset_id \in DOMAIN s.ds
            /\ s.nt < MaxTreelists
      [] req.method = "POST" /\ req.res = "fuelgrids" ->
            /\ req.body.json.dataset_id \in DOMAIN s.ds
            /\ req.body.json.treelist_id \in DOMAIN s.ts
            /\ s.ts[req.body.json.treelist_id].dataset_id = req.body.json.dataset_id
            /\ TreelistUsable(s.ts[req.body.json.treelist_id].status)
            /\ s.nf < MaxFuelgrids
      [] req.method = "GET" /\ req.res = "fuelgrids" /\ req.sub = "data" ->
            /\ req.id \in DOMAIN s.fs
            /\ DataReady(s.fs[req.id].status)
      [] req.method \in {"GET", "DELETE"} /\ req.id = None -> TRUE
      [] OTHER -> req.id \in DOMAIN Store(s, req.res)

\* POST /datasets
HandleCreateDataset(s, req) ==
    LET id == DsId(s.nd + 1)
        s1 == [s EXCEPT !.nd = @ + 1,
                        !.ds = [d \in DOMAIN s.ds \cup {id} |->
                                  IF d = id THEN [treelists |-> <<>>, fuelgrids |-> <<>>]
                                            ELSE s.ds[d]]]
    IN  [state |-> s1, body |-> DatasetJson(s1, id)]

\* POST /treelists: the treelist starts Pending and joins its dataset's collection
HandleCreateTreelist(s, req) ==
    LET id == TlId(s.nt + 1)
        j == req.body.json
        new == [name |-> j.name, description |-> j.description, method |-> j.method,
                dataset_id |-> j.dataset_id, status |-> "Pending",
                created_on |-> IsoText(s.nt + 1), fuelgrids |-> <<>>,
                version |-> "1"]
        s1 == [s EXCEPT !.nt = @ + 1,
                        !.ts = [t \in DOMAIN s.ts \cup {id} |->
                                  IF t = id THEN new ELSE s.ts[t]],
                        !.ds[j.dataset_id].treelists = Append(@, id)]
    IN  [state |-> s1, body |-> TreelistJson(s1, id, "metric")]

\* POST /fuelgrids: the fuelgrid starts Pending and joins both parents' collections
HandleCreateFuelgrid(s, req) ==
    LET id == FgId(s.nf + 1)
        j == req.body.json
        new == [name |-> j.name, description |-> j.description,
                dataset_id |-> j.dataset_id, treelist_id |-> j.treelist_id,
                status |-> "Pending", created_on |-> IsoText(s.nf + 1),
                version |-> "1"]
        s1 == [s EXCEPT !.nf = @ + 1,
                        !.fs = [f \in DOMAIN s.fs \cup {id} |->
                                  IF f = id THEN new ELSE s.fs[f]],
                        !.ds[j.dataset_id].fuelgrids = Append(@, id),
                        !.ts[j.treelist_id].fuelgrids = Append(@, id)]
    IN  [state |-> s1, body |-> FuelgridJson(s1, id)]

\* GET: one resource, its data, or a listing
HandleGet(s, req) ==
    [state |-> s,
     body |->
       CASE req.res = "datasets" /\ req.id = None -> DatasetListing(s)
         [] req.res = "datasets" -> DatasetJson(s, req.id)
         [] req.res = "treelists" /\ req.id = None -> TreelistListing(s, req.dataset_id)
         [] req.res = "treelists" /\ req.sub = "data" -> [content |-> GeneratedCsv]
         [] req.res = "treelists" -> TreelistJson(s, req.id, req.units)
         [] req.res = "fuelgrids" /\ req.id = None -> FuelgridListing(s, req.dataset_id)
         [] req.res = "fuelgrids" /\ req.sub = "data" -> [archive |-> req.id]
         [] OTHER -> FuelgridJson(s, req.id)]

\* PATCH /treelists/{id}: the fields the payload carries are replaced
HandlePatchTreelist(s, req) ==
    LET j == req.body.json
        s1 == [s EXCEPT
                 !.ts[req.id].name = IF "name" \in DOMAIN j THEN j.name ELSE @,
                 !.ts[req.id].description =
                     IF "description" \in DOMAIN j THEN j.description ELSE @]
    IN  [state |-> s1, body |-> TreelistJson(s1, req.id, "metric")]

\* PUT /treelists/{id}/data: the data is replaced and processing starts again
\* (the tree records themselves are opaque to the client and are not stored here)
HandlePutTreelistData(s, req) ==
    LET s1 == [s EXCEPT !.ts[req.id].status = "Pending"]
    IN  [state |-> s1, body |-> TreelistJson(s1, req.id, "metric")]

\* DELETE: one resource or all matching ones, cascading; answers with what remains
HandleDelete(s, req) ==
    CASE req.res = "datasets" ->
            LET s1 == IF req.id = None
                      THEN [s EXCEPT !.ds = <<>>, !.ts = <<>>, !.fs = <<>>]
                      ELSE DropDataset(s, req.id)
            IN  [state |-> s1, body |-> DatasetListing(s1)]
      [] req.res = "treelists" ->
            LET gone == IF req.id = None
                        THEN Range(TreelistsOf(s, req.dataset_id))
                        ELSE {req.id}
                s1 == DropTreelists(s, gone)
            IN  [state |-> s1, body |-> TreelistListing(s1, req.dataset_id)]
      [] OTHER ->
            LET gone == IF req.id = None
                        THEN Range(FuelgridsOf(s, req.dataset_id))
                        ELSE {req.id}
                s1 == DropFuelgrids(s, gone)
            IN  [state |-> s1, body |-> FuelgridListing(s1, req.dataset_id)]

\* the service's answer to `req` with status `st`: a failed request changes nothing
Handle(s, req, st) ==
    IF st # SuccessCode(req) THEN [state |-> s, body |-> ErrorBody(st)]
    ELSE CASE req.method = "POST" /\ req.res = "datasets" -> HandleCreateDataset(s, req)
           [] req.method = "POST" /\ req.res = "treelists" -> HandleCreateTreelist(s, req)
           [] req.method = "POST" -> HandleCreateFuelgrid(s, req)
           [] req.method = "GET" -> HandleGet(s, req)
           [] req.method = "PATCH" -> HandlePatchTreelist(s, req)
           [] req.method = "PUT" -> HandlePutTreelistData(s, req)
           [] OTHER -> HandleDelete(s, req)

\* the transport: SESSION.<method>(...) reaches the service and brings the response
Responses(req) ==
    {[status_code |-> st, json |-> Handle(Cur, req, st).body,
      state |-> Handle(Cur, req, st).state] :
        st \in {c \in StatusCodes : c = SuccessCode(req) => Valid(Cur, req)}}

Commit(s) ==
    /\ datasets' = s.ds
    /\ treelists' = s.ts
    /\ fuelgrids' = s.fs
    /\ nDatasets' = s.nd
    /\ nTreelists' = s.nt
    /\ nFuelgrids' = s.nf

----------------------------------------------------------------------------
(* The client: resource model and treelist operations (treelists.py) *)

\* Treelist.__init__ with status stored in version
TreelistMisassigned(json) ==
    [id |-> json.id, name |-> json.name, description |-> json.description,
     method |-> json.method, dataset_id |-> json.dataset_id,
     status |-> json.status, created_on |-> fromisoformat(json.created_on),
     summary |-> json.summary, fuelgrids |-> json.fuelgrids,
     version |-> json.status]

\* Treelist.__init__: the fields of the decoded JSON, created_on parsed
Treelist(json) ==
    [id |-> json.id, name |-> json.name, description |-> json.description,
     method |-> json.method, dataset_id |-> json.dataset_id,
     status |-> json.status, created_on |-> fromisoformat(json.created_on),
     summary |-> json.summary, fuelgrids |-> json.fuelgrids,
     version |-> json.version]

TreelistList(json) ==
    [i \in 1..Len(json.treelists) |-> Treelist(json.treelists[i])]

\* Treelist(**json) is a TypeError unless json has exactly the constructor's keywords;
\* json["treelists"] is a KeyError when the key is missing
TreelistFields ==
    {"id", "name", "description", "method", "dataset_id", "status",
     "created_on", "summary", "fuelgrids", "version"}
DecodeTreelist(json) ==
    IF DOMAIN json = TreelistFields
    THEN [exc |-> None, value |-> Treelist(json)]
    ELSE [exc |-> "TypeError", value |-> None]
DecodeTreelistList(json) ==
    IF "treelists" \in DOMAIN json
    THEN [exc |-> None, value |-> TreelistList(json)]
    ELSE [exc |-> "KeyError", value |-> None]
\* response.content written to a temporary file and read back with pd.read_csv
DecodeCsv(body) == [exc |-> None, value |-> read_csv(body.content)]

\* how a call ended
Raised(op, args, exc) ==
    [op |-> op, args |-> args, requests |-> <<>>, status_code |-> 0,
     outcome |-> exc, result |-> None]
Ended(op, args, req, response, failed, decoded) ==
    [op |-> op, args |-> args, requests |-> <<req>>,
     status_code |-> response.status_code,
     outcome |-> IF failed THEN "HTTPError"
                 ELSE IF decoded.exc # None THEN decoded.exc ELSE "return",
     result |-> IF failed THEN response.json ELSE decoded.value]

\* the status checks, one per operation
create_treelist_failed_200(response) == response.status_code # 200
create_treelist_failed(response) == response.status_code # 201
get_treelist_failed_5xx(response) == response.status_code >= 500
get_treelist_failed(response) == response.status_code # 200
list_treelists_failed(response) == response.status_code # 200
get_treelist_data_failed(response) == response.status_code # 200
update_treelist_failed(response) == response.status_code # 200
update_treelist_data_failed(response) == response.status_code # 200
delete_treelist_failed(response) == response.status_code # 200
delete_all_treelists_failed(response) == response.status_code # 200

\* the caller keeps the record a successful create call returned
Remember ==
    created' = IF last'.op \in {"create_treelist", "create_fuelgrid"}
                  /\ last'.outcome = "return"
               THEN [id \in DOMAIN created \cup {last'.result.id} |->
                       IF id = last'.result.id THEN last'.result ELSE created[id]]
               ELSE created

\* a call that sends `req`: the service answers, and the call ends as `ended`,
\* which maps each possible response to the call's end, says
Call(req, ended) ==
    \E response \in Responses(req) :
      /\ Commit(response.state)
      /\ last' = ended[response]
      /\ Remember
      /\ UNCHANGED poll

\* a call that raises before anything is sent
Fail(op, args, exc) ==
    /\ last' = Raised(op, args, exc)
    /\ UNCHANGED <<server, created, poll>>

create_treelist_request(dataset_id, name, description, method) ==
    Request("POST", "treelists", None, "", None, None,
            JsonBody([dataset_id |-> dataset_id, name |-> name,
                      description |-> description, method |-> method]))

create_treelist_ended(dataset_id, name, description, method, response) ==
    Ended("create_treelist",
          [dataset_id |-> dataset_id, name |-> name,
           description |-> description, method |-> method],
          create_treelist_request(dataset_id, name, description, method), response,
          create_treelist_failed(response), DecodeTreelist(response.json))

create_treelist(dataset_id, name, description, method) ==
    Call(create_treelist_request(dataset_id, name, description, method),
         [response \in Responses(create_treelist_request(dataset_id, name,
                                                          description, method)) |->
            create_treelist_ended(dataset_id, name, description, method, response)])

\* the unit systems get_treelist accepts
get_treelist_units_ok_metric(units) == units \in {"metric"}
get_treelist_units_ok(units) == units \in {"metric", "imperial"}

get_treelist_request(treelist_id, units) ==
    Request("GET", "treelists", treelist_id, "", None, units, NoBody)

get_treelist_ended(treelist_id, units, response) ==
    Ended("get_treelist", [treelist_id |-> treelist_id, units |-> units],
          get_treelist_request(treelist_id, units), response,
          get_treelist_failed(response), DecodeTreelist(response.json))

get_treelist(treelist_id, units) ==
    IF ~get_treelist_units_ok(units)
    THEN Fail("get_treelist", [treelist_id |-> treelist_id, units |-> units],
              "ValueError")
    ELSE Call(get_treelist_request(treelist_id, units),
              [response \in Responses(get_treelist_request(treelist_id, units)) |->
                 get_treelist_ended(treelist_id, units, response)])

\* list_treelists without its dataset filter
list_treelists_request_unfiltered(dataset_id) ==
    Request("GET", "treelists", None, "", None, None, NoBody)

\* the dataset filter is sent when dataset_id is truthy
list_treelists_request(dataset_id) ==
    IF Truthy(dataset_id)
    THEN Request("GET", "treelists", None, "", dataset_id, None, NoBody)
    ELSE Request("GET", "treelists", None, "", None, None, NoBody)

list_treelists_ended(dataset_id, response) ==
    Ended("list_treelists", [dataset_id |-> dataset_id],
          list_treelists_request(dataset_id), response,
          list_treelists_failed(response), DecodeTreelistList(response.json))

list_treelists(dataset_id) ==
    Call(list_treelists_request(dataset_id),
         [response \in Responses(list_treelists_request(dataset_id)) |->
            list_treelists_ended(dataset_id, response)])

get_treelist_data_request(treelist_id) ==
    Request("GET", "treelists", treelist_id, "data", None, None, NoBody)

get_treelist_data(treelist_id) ==
    Call(get_treelist_data_request(treelist_id),
         [response \in Responses(get_treelist_data_request(treelist_id)) |->
           Ended("get_treelist_data", [treelist_id |-> treelist_id],
                 get_treelist_data_request(treelist_id), response,
                 get_treelist_data_failed(response), DecodeCsv(response.json))])

\* the early return of update_treelist
update_treelist_nothing_empty(name, description) == name = "" /\ description = ""
update_treelist_nothing(name, description) == name = None /\ description = None

\* payload_dict of update_treelist: a field is added when it is truthy
update_treelist_payload(name, description) ==
    [k \in {x \in {"name"} : Truthy(name)}
           \cup {x \in {"description"} : Truthy(description)} |->
        IF k = "name" THEN name ELSE description]

\* update_treelist sending its payload to the data endpoint
update_treelist_request_put(treelist_id, name, description) ==
    Request("PUT", "treelists", treelist_id, "data", None, None,
            JsonBody(update_treelist_payload(name, description)))

update_treelist_request(treelist_id, name, description) ==
    Request("PATCH", "treelists", treelist_id, "", None, None,
            JsonBody(update_treelist_payload(name, description)))

update_treelist(treelist_id, name, description) ==
    LET args == [treelist_id |-> treelist_id, name |-> name,
                 description |-> description]
    IN  IF update_treelist_nothing(name, description)
        THEN Fail("update_treelist", args, "ValueError")
        ELSE Call(update_treelist_request(treelist_id, name, description),
                  [response \in Responses(update_treelist_request(treelist_id, name, description)) |->
                     
                    Ended("update_treelist", args,
                          update_treelist_request(treelist_id, name, description),
                          response, update_treelist_failed(response),
                          DecodeTreelist(response.json))])

update_treelist_data_request(treelist_id, data) ==
    Request("PUT", "treelists", treelist_id, "data", None, None,
            FileBody(to_csv(data)))

\* update_treelist_data: only `data` is ever written; data.to_csv on None is an
\* AttributeError, raised before anything is sent
update_treelist_data(treelist_id, filename, data) ==
    LET args == [treelist_id |-> treelist_id, filename |-> filename, data |-> data]
    IN  IF filename = None /\ data = NoFrame
        THEN Fail("update_treelist_data", args, "ValueError")
        ELSE IF data = NoFrame
        THEN Fail("update_treelist_data", args, "AttributeError")
        ELSE Call(update_treelist_data_request(treelist_id, data),
                  [response \in Responses(update_treelist_data_request(treelist_id, data)) |->
                     
                    Ended("update_treelist_data", args,
                          update_treelist_data_request(treelist_id, data),
                          response, update_treelist_data_failed(response),
                          DecodeTreelist(response.json))])

\* the request of delete_treelist: dataset_id is not part of it
delete_treelist_request(treelist_id, dataset_id) ==
    Request("DELETE", "treelists", treelist_id, "", None, None, NoBody)

delete_treelist_ended(treelist_id, dataset_id, response) ==
    Ended("delete_treelist", [treelist_id |-> treelist_id, dataset_id |-> dataset_id],
          delete_treelist_request(treelist_id, dataset_id), response,
          delete_treelist_failed(response), DecodeTreelistList(response.json))

delete_treelist(treelist_id, dataset_id) ==
    Call(delete_treelist_request(treelist_id, dataset_id),
         [response \in Responses(delete_treelist_request(treelist_id, dataset_id)) |->
            delete_treelist_ended(treelist_id, dataset_id, response)])

delete_all_treelists_request(dataset_id) ==
    IF Truthy(dataset_id)
    THEN Request("DELETE", "treelists", None, "", dataset_id, None, NoBody)
    ELSE Request("DELETE", "treelists", None, "", None, None, NoBody)

delete_all_treelists(dataset_id) ==
    Call(delete_all_treelists_request(dataset_id),
         [response \in Responses(delete_all_treelists_request(dataset_id)) |->
           Ended("delete_all_treelists", [dataset_id |-> dataset_id],
                 delete_all_treelists_request(dataset_id), response,
                 delete_all_treelists_failed(response),
                 DecodeTreelistList(response.json))])

----------------------------------------------------------------------------
(* The dataset and fuelgrid operations, which follow the same pattern *)

Fuelgrid(json) ==
    [id |-> json.id, name |-> json.name, description |-> json.description,
     dataset_id |-> json.dataset_id, treelist_id |-> json.treelist_id,
     status |-> json.status, created_on |-> fromisoformat(json.created_on),
     version |-> json.version]
FuelgridFields ==
    {"id", "name", "description", "dataset_id", "treelist_id", "status",
     "created_on", "version"}
DecodeFuelgrid(json) ==
    IF DOMAIN json = FuelgridFields
    THEN [exc |-> None, value |-> Fuelgrid(json)]
    ELSE [exc |-> "TypeError", value |-> None]
DecodeFuelgridList(json) ==
    IF "fuelgrids" \in DOMAIN json
    THEN [exc |-> None,
          value |-> [i \in 1..Len(json.fuelgrids) |-> Fuelgrid(json.fuelgrids[i])]]
    ELSE [exc |-> "KeyError", value |-> None]
DecodeDataset(json) ==
    IF DOMAIN json = {"id", "treelists", "fuelgrids"}
    THEN [exc |-> None, value |-> json]
    ELSE [exc |-> "TypeError", value |-> None]
DecodeDatasetList(json) ==
    IF "datasets" \in DOMAIN json
    THEN [exc |-> None, value |-> json.datasets]
    ELSE [exc |-> "KeyError", value |-> None]

create_dataset ==
    LET req == Request("POST", "datasets", None, "", None, None, NoBody)
    IN  Call(req, [response \in Responses(req) |->
                    Ended("create_dataset", [none |-> None], req, response,
                          response.status_code # 201, DecodeDataset(response.json))])

get_dataset(dataset_id) ==
    LET req == Request("GET", "datasets", dataset_id, "", None, None, NoBody)
    IN  Call(req, [response \in Responses(req) |->
                    Ended("get_dataset", [dataset_id |-> dataset_id], req, response,
                          response.status_code # 200, DecodeDataset(response.json))])

delete_dataset(dataset_id) ==
    LET req == Request("DELETE", "datasets", dataset_id, "", None, None, NoBody)
    IN  Call(req, [response \in Responses(req) |->
                    Ended("delete_dataset", [dataset_id |-> dataset_id], req, response,
                          response.status_code # 200,
                          DecodeDatasetList(response.json))])

create_fuelgrid_request(dataset_id, treelist_id, name, description) ==
    Request("POST", "fuelgrids", None, "", None, None,
            JsonBody([dataset_id |-> dataset_id, treelist_id |-> treelist_id,
                      name |-> name, description |-> description]))

create_fuelgrid_ended(dataset_id, treelist_id, name, description, response) ==
    Ended("create_fuelgrid",
          [dataset_id |-> dataset_id, treelist_id |-> treelist_id,
           name |-> name, description |-> description],
          create_fuelgrid_request(dataset_id, treelist_id, name, description),
          response, response.status_code # 201, DecodeFuelgrid(response.json))

create_fuelgrid(dataset_id, treelist_id, name, description) ==
    Call(create_fuelgrid_request(dataset_id, treelist_id, name, description),
         [response \in Responses(create_fuelgrid_request(dataset_id, treelist_id,
                                                          name, description)) |->
            create_fuelgrid_ended(dataset_id, treelist_id, name, description,
                                  response)])

get_fuelgrid_request(fuelgrid_id) ==
    Request("GET", "fuelgrids", fuelgrid_id, "", None, None, NoBody)

get_fuelgrid_ended(fuelgrid_id, response) ==
    Ended("get_fuelgrid", [fuelgrid_id |-> fuelgrid_id],
          get_fuelgrid_request(fuelgrid_id), response,
          response.status_code # 200, DecodeFuelgrid(response.json))

get_fuelgrid(fuelgrid_id) ==
    Call(get_fuelgrid_request(fuelgrid_id),
         [response \in Responses(get_fuelgrid_request(fuelgrid_id)) |->
            get_fuelgrid_ended(fuelgrid_id, response)])

list_fuelgrids_request(dataset_id) ==
    IF Truthy(dataset_id)
    THEN Request("GET", "fuelgrids", None, "", dataset_id, None, NoBody)
    ELSE Request("GET", "fuelgrids", None, "", None, None, NoBody)

list_fuelgrids_ended(dataset_id, response) ==
    Ended("list_fuelgrids", [dataset_id |-> dataset_id],
          list_fuelgrids_request(dataset_id), response,
          response.status_code # 200, DecodeFuelgridList(response.json))

list_fuelgrids(dataset_id) ==
    Call(list_fuelgrids_request(dataset_id),
         [response \in Responses(list_fuelgrids_request(dataset_id)) |->
            list_fuelgrids_ended(dataset_id, response)])

delete_fuelgrid_request(fuelgrid_id) ==
    Request("DELETE", "fuelgrids", fuelgrid_id, "", None, None, NoBody)

delete_fuelgrid_ended(fuelgrid_id, response) ==
    Ended("delete_fuelgrid", [fuelgrid_id |-> fuelgrid_id],
          delete_fuelgrid_request(fuelgrid_id), response,
          response.status_code # 200, DecodeFuelgridList(response.json))

delete_fuelgrid(fuelgrid_id) ==
    Call(delete_fuelgrid_request(fuelgrid_id),
         [response \in Responses(delete_fuelgrid_request(fuelgrid_id)) |->
            delete_fuelgrid_ended(fuelgrid_id, response)])

\* download_zarr: the archive of a fuelgrid is fetched and saved; the service
\* decides whether it can be served, the client checks nothing beforehand
download_zarr_request(fuelgrid_id) ==
    Request("GET", "fuelgrids", fuelgrid_id, "data", None, None, NoBody)

download_zarr_ended(fuelgrid_id, response) ==
    Ended("download_zarr", [fuelgrid_id |-> fuelgrid_id],
          download_zarr_request(fuelgrid_id), response,
          response.status_code # 200, [exc |-> None, value |-> response.json])

download_zarr(fuelgrid_id) ==
    Call(download_zarr_request(fuelgrid_id),
         [response \in Responses(download_zarr_request(fuelgrid_id)) |->
            download_zarr_ended(fuelgrid_id, response)])

delete_all_fuelgrids(dataset_id) ==
    LET req == IF Truthy(dataset_id)
               THEN Request("DELETE", "fuelgrids", None, "", dataset_id, None, NoBody)
               ELSE Request("DELETE", "fuelgrids", None, "", None, None, NoBody)
    IN  Call(req, [response \in Responses(req) |->
                    Ended("delete_all_fuelgrids", [dataset_id |-> dataset_id], req,
                          response, response.status_code # 200,
                          DecodeFuelgridList(response.json))])

----------------------------------------------------------------------------
(* Server-side processing: a resource moves from Pending to a terminal status *)

NextStatus(status) ==
    CASE status = "Pending" -> {"Processing"}
      [] status = "Processing" -> {"Finished", "Error"}
      [] OTHER -> {}

ProcessTreelist(id) ==
    /\ id \in DOMAIN treelists
    /\ \E st \in NextStatus(treelists[id].status) :
         treelists' = [treelists EXCEPT ![id].status = st]
    /\ UNCHANGED <<datasets, fuelgrids, nDatasets, nTreelists, nFuelgrids>>
    /\ UNCHANGED <<last, created, poll>>

ProcessFuelgrid(id) ==
    /\ id \in DOMAIN fuelgrids
    /\ \E st \in NextStatus(fuelgrids[id].status) :
         fuelgrids' = [fuelgrids EXCEPT ![id].status = st]
    /\ UNCHANGED <<datasets, treelists, nDatasets, nTreelists, nFuelgrids>>
    /\ UNCHANGED <<last, created, poll>>

----------------------------------------------------------------------------
(* The polling loop of the tests:                                          *)
(*     fuelgrid = get_fuelgrid(temp_id)                                    *)
(*     while fuelgrid.status != "Finished":                                *)
(*         fuelgrid = get_fuelgrid(temp_id)                                *)
(*         sleep(2)                                                        *)

\* the loop condition, had it waited only while the status is Pending
PollAgainWhilePending(fuelgrid) == fuelgrid.status = "Pending"

\* the loop condition
PollAgain(fuelgrid) == fuelgrid.status # "Finished"

\* one get_fuelgrid call of the loop; an HTTPError leaves the loop
PollGet(fuelgrid_id) ==
    /\ Len(pollReads) < MaxPolls
    /\ UNCHANGED created
    /\ \E response \in Responses(get_fuelgrid_request(fuelgrid_id)) :
         /\ Commit(response.state)
         /\ last' = get_fuelgrid_ended(fuelgrid_id, response)
         /\ IF last'.outcome = "return"
            THEN /\ pollRec' = last'.result
                 /\ pollReads' = Append(pollReads, last'.result.status)
                 /\ pollPc' = "loop"
            ELSE /\ pollPc' = "raised"
                 /\ UNCHANGED <<pollRec, pollReads>>

PollStart(fuelgrid_id) ==
    /\ pollPc = "idle"
    /\ pollId' = fuelgrid_id
    /\ PollGet(fuelgrid_id)

PollStep ==
    /\ pollPc = "loop"
    /\ IF PollAgain(pollRec)
       THEN PollGet(pollId) /\ UNCHANGED pollId
       ELSE /\ pollPc' = "done"
            /\ UNCHANGED <<server, last, created, pollId, pollRec, pollReads>>

----------------------------------------------------------------------------
(* Specifications *)

NoCall ==
    [op |-> "none", args |-> [none |-> None], requests |-> <<>>, status_code |-> 0,
     outcome |-> "none", result |-> None]

Init ==
    /\ datasets = <<>>
    /\ treelists = <<>>
    /\ fuelgrids = <<>>
    /\ nDatasets = 0
    /\ nTreelists = 0
    /\ nFuelgrids = 0
    /\ last = NoCall
    /\ created = <<>>
    /\ pollPc = "idle"
    /\ pollId = None
    /\ pollRec = None
    /\ pollReads = <<>>

Names == {None, "", "n2"}
Descriptions == {None, "", "e2"}
UnitSystems == {"metric", "imperial", "bogus"}
Filenames == {None, "trees.csv"}

\* every treelist operation, over every kind of argument
TreelistCall ==
    \/ \E d \in DatasetIds \cup {BadId} : create_treelist(d, "n1", "e1", "random")
    \/ \E t \in TreelistIds \cup {BadId}, u \in UnitSystems : get_treelist(t, u)
    \/ \E d \in DatasetIds \cup {None, ""} : list_treelists(d)
    \/ \E t \in TreelistIds \cup {BadId} : get_treelist_data(t)
    \/ \E t \in TreelistIds \cup {BadId}, n \in Names, e \in Descriptions :
         update_treelist(t, n, e)
    \/ \E t \in TreelistIds \cup {BadId}, f \in Filenames, df \in Frames \cup {NoFrame} :
         update_treelist_data(t, f, df)
    \/ \E t \in TreelistIds \cup {BadId}, d \in DatasetIds \cup {None} :
         delete_treelist(t, d)
    \/ \E d \in DatasetIds \cup {None, ""} : delete_all_treelists(d)

\* the treelist operations against the service
Next ==
    \/ create_dataset
    \/ TreelistCall

Spec == Init /\ [][Next]_vars

\* creating, reading, listing and deleting datasets, treelists and fuelgrids
LifeCall ==
    \/ create_dataset
    \/ \E d \in DatasetIds : get_dataset(d)
    \/ \E d \in DatasetIds : delete_dataset(d)
    \/ \E d \in DatasetIds : create_treelist(d, "n1", "e1", "random")
    \/ \E t \in TreelistIds : get_treelist(t, "metric")
    \/ \E d \in DatasetIds \cup {None} : list_treelists(d)
    \/ \E t \in TreelistIds : delete_treelist(t, None)
    \/ \E d \in DatasetIds \cup {None} : delete_all_treelists(d)
    \/ \E d \in DatasetIds, t \in TreelistIds : create_fuelgrid(d, t, "g1", "e1")
    \/ \E f \in FuelgridIds : get_fuelgrid(f)
    \/ \E d \in DatasetIds \cup {None} : list_fuelgrids(d)
    \/ \E f \in FuelgridIds : delete_fuelgrid(f)
    \/ \E d \in DatasetIds \cup {None} : delete_all_fuelgrids(d)

Processing ==
    \/ \E t \in TreelistIds : ProcessTreelist(t)
    \/ \E f \in FuelgridIds : ProcessFuelgrid(f)

NextLife ==
    \/ LifeCall
    \/ Processing

SpecLife == Init /\ [][NextLife]_vars

\* a fuelgrid is created, polled and downloaded while the service processes it
NextPoll ==
    \/ create_dataset
    \/ create_treelist(DsId(1), "n1", "e1", "random")
    \/ create_fuelgrid(DsId(1), TlId(1), "g1", "e1")
    \/ Processing
    \/ \E f \in FuelgridIds : PollStart(f)
    \/ PollStep
    \/ \E f \in FuelgridIds \cup {BadId} : download_zarr(f)

SpecPoll == Init /\ [][NextPoll]_vars

\* treelists are created, renamed, given new data and read while the service
\* processes them
NextReplace ==
    \/ create_dataset
    \/ create_treelist(DsId(1), "n1", "e1", "random")
    \/ \E t \in TreelistIds : get_treelist(t, "metric")
    \/ \E t \in TreelistIds : update_treelist(t, "n2", None)
    \/ \E t \in TreelistIds, df \in Frames : update_treelist_data(t, None, df)
    \/ \E t \in TreelistIds : ProcessTreelist(t)

SpecReplace == Init /\ [][NextReplace]_vars

----------------------------------------------------------------------------
(* Properties of the treelist operations *)

TreelistOps ==
    {"create_treelist", "get_treelist", "list_treelists", "get_treelist_data",
     "update_treelist", "update_treelist_data", "delete_treelist",
     "delete_all_treelists"}

\* the success code the specification documents for an operation
DocumentedSuccess(op) == IF op = "create_treelist" THEN 201 ELSE 200

Filter(dataset_id) == IF Truthy(dataset_id) THEN dataset_id ELSE None

Ids(records) == {records[i].id : i \in 1..Len(records)}

\* what a successful call hands back, read off the service's state after the call
Handed(l) ==
    CASE l.op = "create_treelist" ->
           Treelist(TreelistJson(Cur, l.result.id, "metric"))
      [] l.op = "get_treelist" ->
           Treelist(TreelistJson(Cur, l.args.treelist_id, l.args.units))
      [] l.op \in {"update_treelist", "update_treelist_data"} ->
           Treelist(TreelistJson(Cur, l.args.treelist_id, "metric"))
      [] l.op = "get_treelist_data" -> read_csv(GeneratedCsv)
      [] l.op = "delete_treelist" -> TreelistList(TreelistListing(Cur, None))
      [] OTHER -> TreelistList(TreelistListing(Cur, Filter(l.args.dataset_id)))

\* C1: a treelist operation that sent a request returns the decoded result exactly
\* when the response status is the documented success code (201 for
\* create_treelist, 200 for the others); on any other status it raises HTTPError
\* carrying the decoded response body and returns no record.
C1_StatusDecidesOutcome ==
    (last.op \in TreelistOps /\ last.requests # <<>>) =>
        IF last.status_code = DocumentedSuccess(last.op)
        THEN /\ last.outcome = "return"
             /\ last.result = Handed(last)
        ELSE /\ last.outcome = "HTTPError"
             /\ last.result = ErrorBody(last.status_code)

\* C1 witness: create_treelist was answered 200, which is not its success code
C1_Witness ==
    /\ last.op = "create_treelist"
    /\ last.status_code = 200
    /\ last.outcome = "HTTPError"

\* C2: update_treelist with neither name nor description fails with ValueError
\* and sends no request, whatever the treelist id.
C2_UpdateNothingIsLocalError ==
    (last.op = "update_treelist" /\ last.args.name = None
       /\ last.args.description = None) =>
        /\ last.outcome = "ValueError"
        /\ last.requests = <<>>

\* C2 witness: such a call was made for a treelist that exists
C2_Witness ==
    /\ last.op = "update_treelist"
    /\ last.args.name = None
    /\ last.args.description = None
    /\ last.args.treelist_id \in DOMAIN treelists
    /\ last.outcome = "ValueError"

\* C3: get_treelist with units outside {"metric", "imperial"} fails with
\* ValueError and sends no request; with units in that set it sends one GET for
\* that treelist carrying the units.
C3_UnitsCheckedBeforeSending ==
    last.op = "get_treelist" =>
        IF last.args.units \in {"metric", "imperial"}
        THEN /\ Len(last.requests) = 1
             /\ last.requests[1].method = "GET"
             /\ last.requests[1].res = "treelists"
             /\ last.requests[1].id = last.args.treelist_id
             /\ last.requests[1].units = last.args.units
             /\ last.outcome \in {"return", "HTTPError"}
        ELSE /\ last.outcome = "ValueError"
             /\ last.requests = <<>>

\* C3 witness: both cases are reached; here the imperial request that succeeded
C3_Witness ==
    /\ last.op = "get_treelist"
    /\ last.args.units = "imperial"
    /\ last.outcome = "return"
    /\ last.result.summary.units = "imperial"

\* C4: update_treelist_data fails with ValueError, sending nothing, exactly when
\* both filename and data are absent; whenever one of them is supplied (filename
\* alone included) it sends a PUT to /treelists/{id}/data and can only fail with
\* HTTPError.
C4_EitherSourceUploads ==
    last.op = "update_treelist_data" =>
        IF last.args.filename = None /\ last.args.data = NoFrame
        THEN /\ last.outcome = "ValueError"
             /\ last.requests = <<>>
        ELSE /\ last.outcome \in {"return", "HTTPError"}
             /\ Len(last.requests) = 1
             /\ last.requests[1].method = "PUT"
             /\ last.requests[1].res = "treelists"
             /\ last.requests[1].id = last.args.treelist_id
             /\ last.requests[1].sub = "data"

\* C5: a successful delete_treelist(treelist_id, dataset_id) returns exactly the
\* treelists that remain, restricted to those of dataset_id when it is given: the
\* deleted id is not among them, nor is a treelist of another dataset.
C5_DeleteReturnsFilteredRemainder ==
    (last.op = "delete_treelist" /\ last.outcome = "return") =>
        LET ids == [i \in 1..Len(last.result) |-> last.result[i].id] IN
        /\ ids = TreelistsOf(Cur, last.args.dataset_id)
        /\ last.args.treelist_id \notin Range(ids)
        /\ last.args.dataset_id # None =>
             \A i \in 1..Len(last.result) :
               last.result[i].dataset_id = last.args.dataset_id

\* C14: a successful delete_all_treelists(dataset_id) with a filter (any value
\* other than None) deletes exactly the treelists owned by that dataset and
\* leaves those of every other dataset as they were; without a filter it deletes
\* every treelist; in both cases it returns the treelists that remain under the
\* filter.
C14_DeleteAllKeepsOtherDatasets ==
    [][(last'.op = "delete_all_treelists" /\ last'.outcome = "return") =>
         LET d == last'.args.dataset_id
             kept == {t \in DOMAIN treelists :
                        d # None /\ treelists[t].dataset_id # d}
         IN  /\ DOMAIN treelists' = kept
             /\ \A t \in kept : treelists'[t] = treelists[t]
             /\ Ids(last'.result) =
                  {t \in DOMAIN treelists' :
                     d # None => treelists'[t].dataset_id = d}]_vars

\* the local validation the operations document: the unit system of get_treelist,
\* a field to change for update_treelist, a data source for update_treelist_data
PassesValidation(l) ==
    CASE l.op = "get_treelist" -> l.args.units \in {"metric", "imperial"}
      [] l.op = "update_treelist" ->
           ~(l.args.name = None /\ l.args.description = None)
      [] l.op = "update_treelist_data" ->
           ~(l.args.filename = None /\ l.args.data = NoFrame)
      [] OTHER -> TRUE

\* C15: a call of a treelist operation sends at most one request: exactly one
\* when its local validation passes, whatever the response (a non-success
\* response is not retried), and none when it fails.
C15_OneRequestPerValidCall ==
    last.op \in TreelistOps =>
        /\ Len(last.requests) <= 1
        /\ Len(last.requests) = 1 <=> PassesValidation(last)

\* C16: a PATCH sent by update_treelist carries at least one field, and exactly
\* the fields that were supplied: name exactly when name is not None,
\* description exactly when description is not None, with the supplied value,
\* the empty string included.
C16_PatchCarriesSuppliedFields ==
    (last.op = "update_treelist" /\ last.requests # <<>>) =>
        LET payload == last.requests[1].body.json IN
        /\ last.requests[1].method = "PATCH"
        /\ DOMAIN payload # {}
        /\ "name" \in DOMAIN payload <=> last.args.name # None
        /\ "description" \in DOMAIN payload <=> last.args.description # None
        /\ \A k \in DOMAIN payload : payload[k] = last.args[k]

----------------------------------------------------------------------------
(* Properties of the resource lifecycle *)

AssignedDatasets == {DsId(n) : n \in 1..nDatasets}
AssignedTreelists == {TlId(n) : n \in 1..nTreelists}
AssignedFuelgrids == {FgId(n) : n \in 1..nFuelgrids}

\* the ids that were assigned and have since been deleted (ids are never reused)
GoneDatasets == AssignedDatasets \ DOMAIN datasets
GoneTreelists == AssignedTreelists \ DOMAIN treelists
GoneFuelgrids == AssignedFuelgrids \ DOMAIN fuelgrids

\* how a call made now can end: one record per possible response
ListTreelistsNow(d) ==
    {list_treelists_ended(d, r) : r \in Responses(list_treelists_request(d))}
GetTreelistNow(t) ==
    {get_treelist_ended(t, "metric", r) :
       r \in Responses(get_treelist_request(t, "metric"))}
DeleteTreelistNow(t) ==
    {delete_treelist_ended(t, None, r) :
       r \in Responses(delete_treelist_request(t, None))}
ListFuelgridsNow(d) ==
    {list_fuelgrids_ended(d, r) : r \in Responses(list_fuelgrids_request(d))}
GetFuelgridNow(f) ==
    {get_fuelgrid_ended(f, r) : r \in Responses(get_fuelgrid_request(f))}
DeleteFuelgridNow(f) ==
    {delete_fuelgrid_ended(f, r) : r \in Responses(delete_fuelgrid_request(f))}

\* C6: once an id has been deleted it stays out of every list result and out of
\* the child-id collections of every dataset and treelist, and every later get or
\* delete of it raises HTTPError.
C6_DeletedStaysGone ==
    /\ \A t \in GoneTreelists :
         /\ \A d \in DOMAIN datasets : t \notin Range(datasets[d].treelists)
         /\ \A d \in DatasetIds \cup {None} :
              \A e \in ListTreelistsNow(d) :
                e.outcome = "return" => t \notin Ids(e.result)
         /\ \A e \in GetTreelistNow(t) :
              e.outcome = "HTTPError"
         /\ \A e \in DeleteTreelistNow(t) :
              e.outcome = "HTTPError"
    /\ \A f \in GoneFuelgrids :
         /\ \A d \in DOMAIN datasets : f \notin Range(datasets[d].fuelgrids)
         /\ \A t \in DOMAIN treelists : f \notin Range(treelists[t].fuelgrids)
         /\ \A d \in DatasetIds \cup {None} :
              \A e \in ListFuelgridsNow(d) :
                e.outcome = "return" => f \notin Ids(e.result)
         /\ \A e \in GetFuelgridNow(f) :
              e.outcome = "HTTPError"
         /\ \A e \in DeleteFuelgridNow(f) :
              e.outcome = "HTTPError"

\* C6 witness: a treelist was deleted by delete_treelist, and a fuelgrid is gone too
C6_Witness ==
    /\ last.op = "delete_treelist"
    /\ last.outcome = "return"
    /\ last.args.treelist_id \in GoneTreelists
    /\ GoneFuelgrids # {}
    /\ DOMAIN treelists # {}

\* the fields of a record that neither processing nor a derived resource changes
Lasting(record) == DOMAIN record \ {"status", "fuelgrids", "summary"}

C10_CollectionsMatchStore ==
    /\ \A d \in DOMAIN datasets : \A f \in AssignedFuelgrids :
         f \in Range(datasets[d].fuelgrids)
           <=> (f \in DOMAIN fuelgrids /\ fuelgrids[f].dataset_id = d)
    /\ \A t \in DOMAIN treelists : \A f \in AssignedFuelgrids :
         f \in Range(treelists[t].fuelgrids)
           <=> (f \in DOMAIN fuelgrids /\ fuelgrids[f].treelist_id = t)
    /\ \A t \in DOMAIN treelists : treelists[t].dataset_id \in DOMAIN datasets
    /\ \A f \in DOMAIN fuelgrids :
         /\ fuelgrids[f].dataset_id \in DOMAIN datasets
         /\ fuelgrids[f].treelist_id \in DOMAIN treelists
    /\ \A d \in GoneDatasets :
         /\ \A e \in ListTreelistsNow(d) :
              e.outcome = "return" => e.result = <<>>
         /\ \A e \in ListFuelgridsNow(d) :
              e.outcome = "return" => e.result = <<>>

\* C10 witness: a dataset owning a treelist and a fuelgrid was deleted while
\* another dataset still has a treelist
C10_Witness ==
    /\ last.op = "delete_dataset"
    /\ last.outcome = "return"
    /\ last.args.dataset_id \in GoneDatasets
    /\ \E t \in GoneTreelists : created[t].dataset_id = last.args.dataset_id
    /\ \E f \in GoneFuelgrids : created[f].dataset_id = last.args.dataset_id
    /\ DOMAIN treelists # {}

\* C11: create_fuelgrid naming a treelist whose status is not yet terminal
\* (Pending or Processing) can only raise HTTPError, whatever dataset it names,
\* and leaves the store as it was: no fuelgrid is created and the fuelgrids
\* collections of the dataset and of the treelist are unchanged.
C11_UnfinishedTreelistRejected ==
    \A t \in DOMAIN treelists : treelists[t].status \in NonTerminal =>
      \A d \in DatasetIds :
        \A r \in Responses(create_fuelgrid_request(d, t, "g1", "e1")) :
          /\ create_fuelgrid_ended(d, t, "g1", "e1", r).outcome = "HTTPError"
          /\ r.state = Cur

\* C11 witness: create_fuelgrid was called for a treelist of the named dataset
\* that is still Processing and raised, and no fuelgrid exists
C11_Witness ==
    /\ last.op = "create_fuelgrid"
    /\ last.outcome = "HTTPError"
    /\ last.args.treelist_id \in DOMAIN treelists
    /\ treelists[last.args.treelist_id].status = "Processing"
    /\ treelists[last.args.treelist_id].dataset_id = last.args.dataset_id
    /\ treelists[last.args.treelist_id].fuelgrids = <<>>
    /\ datasets[last.args.dataset_id].fuelgrids = <<>>
    /\ fuelgrids = <<>>

----------------------------------------------------------------------------
(* Properties of the polling loop *)

\* C7: the loop issues no get after it has read Finished, and when it ends the
\* last of its reads, and only the last, is Finished and it holds that record:
\* with Finished first read at the n-th get it has issued exactly n gets.
C7_PollStopsAtFinished ==
    /\ \A i \in 1..(Len(pollReads) - 1) : pollReads[i] # "Finished"
    /\ pollPc = "done" =>
         /\ Len(pollReads) >= 1
         /\ pollReads[Len(pollReads)] = "Finished"
         /\ pollRec.status = "Finished"
         /\ pollRec.id = pollId

\* C7 witness: the reads Pending, Pending, Finished: three gets
C7_Witness ==
    /\ pollPc = "done"
    /\ pollReads = <<"Pending", "Pending", "Finished">>

\* C8: the loop issues no get after it has read a terminal status, Finished or
\* Error: after the reads Pending, Error it has stopped with two gets.
C8_PollStopsAtTerminal ==
    \A i \in 1..(Len(pollReads) - 1) : pollReads[i] \notin Terminal

\* how a download_zarr call made now can end: one record per possible response
DownloadZarrNow(f) ==
    {download_zarr_ended(f, r) : r \in Responses(download_zarr_request(f))}

\* C12: download_zarr returns only for an existing fuelgrid whose status is
\* Finished, and then exactly on the 200 response, which the service does give;
\* for a fuelgrid that is not Finished or an unknown id every outcome is
\* HTTPError; once the polling loop has read Finished, a download of the polled
\* id can succeed in every later state.
C12_DownloadOnlyWhenFinished ==
    /\ \A f \in FuelgridIds \cup {BadId} :
         LET ready == f \in DOMAIN fuelgrids /\ fuelgrids[f].status = "Finished" IN
         /\ \A e \in DownloadZarrNow(f) :
              e.outcome = IF ready /\ e.status_code = 200 THEN "return"
                          ELSE "HTTPError"
         /\ ready => \E e \in DownloadZarrNow(f) : e.outcome = "return"
    /\ (last.op = "download_zarr" /\ last.outcome = "return") =>
         /\ last.args.fuelgrid_id \in DOMAIN fuelgrids
         /\ fuelgrids[last.args.fuelgrid_id].status = "Finished"
    /\ "Finished" \in Range(pollReads) =>
         \E e \in DownloadZarrNow(pollId) : e.outcome = "return"

\* C12 witness: the archive of the polled fuelgrid was downloaded after the loop
\* had ended on Finished
C12_Witness ==
    /\ pollPc = "done"
    /\ last.op = "download_zarr"
    /\ last.args.fuelgrid_id = pollId
    /\ last.outcome = "return"
    /\ last.result = [archive |-> pollId]

----------------------------------------------------------------------------
(* Properties of the treelist status *)

\* the statuses a get_treelist made now can return
StatusesNow(t) ==
    {e.result.status : e \in {x \in GetTreelistNow(t) : x.outcome = "return"}}

====
